---------------------------- MODULE Spec2Model ----------------------------
(***************************************************************************)
(* A model of lazyhost's cache updater, src/lh_update_cache.py.            *)
(*                                                                         *)
(* Text is modelled character by character: a text is a sequence of        *)
(* one-character strings, a file is a record saying whether it exists and  *)
(* what text it holds.  The FQDN cache file fqdn.json is modelled by what   *)
(* json.load makes of it: missing, not decodable, or a mapping from        *)
(* primary-IP URLs to names.                                               *)
(***************************************************************************)
EXTENDS Integers, Sequences, FiniteSets, TLC

(***************************************************************************)
(* Bounds of the model.                                                    *)
(***************************************************************************)
\* Total number of characters in the five source files of a merge input.
MaxChars == 4

\* Pages the inventory serves to one paginated fetch.
MaxPages == 2

\* Records the inventory returns to one paginated fetch, over all pages.
MaxRecords == 2

\* Times the merger is run in a row over unchanged source files.
MaxMerges == 2

(***************************************************************************)
(* Characters and texts.                                                   *)
(***************************************************************************)
\* The characters of the model, in ascending code-point order
\* (LF < space < comma < full stop < the letters).
Alphabet == <<"\n", " ", ",", ".", "a", "b", "e", "m", "n", "s", "t", "w">>

NL == "\n"

\* The place of a character in the code-point order.
Ord(c) == CHOOSE i \in 1..Len(Alphabet) : Alphabet[i] = c

Range(s) == {s[i] : i \in 1..Len(s)}

Min(a, b) == IF a <= b THEN a ELSE b

\* Python's < on str: the first differing character decides, a proper
\* prefix is smaller.
StrLess(s, t) ==
    \E i \in 1..(Min(Len(s), Len(t)) + 1) :
        /\ \A j \in 1..(i - 1) : s[j] = t[j]
        /\ \/ i > Len(s) /\ i <= Len(t)
           \/ i <= Len(s) /\ i <= Len(t) /\ Ord(s[i]) < Ord(t[i])

\* All texts of exactly n characters over the character set cs.
TextsOfLen(cs, n) == [1..n -> cs]

\* All texts of at most n characters over the character set cs.
TextsUpTo(cs, n) == UNION {TextsOfLen(cs, k) : k \in 0..n}

\* str.splitlines(): the pieces between line feeds; a final line feed ends
\* the last line and opens no further, empty one.
RECURSIVE SplitFrom(_, _, _)
SplitFrom(text, i, cur) ==
    IF i > Len(text)
    THEN IF cur = <<>> /\ (i = 1 \/ text[i - 1] = NL) THEN <<>> ELSE <<cur>>
    ELSE IF text[i] = NL
         THEN <<cur>> \o SplitFrom(text, i + 1, <<>>)
         ELSE SplitFrom(text, i + 1, Append(cur, text[i]))

SplitLines(text) == SplitFrom(text, 1, <<>>)

\* A join that leaves out a line that comes again later.
RECURSIVE JoinLinesDistinct(_)
JoinLinesDistinct(lines) ==
    IF lines = <<>> THEN <<>>
    ELSE IF Len(lines) = 1 THEN lines[1]
    ELSE IF lines[1] \in Range(Tail(lines))
         THEN JoinLinesDistinct(Tail(lines))
         ELSE lines[1] \o <<NL>> \o JoinLinesDistinct(Tail(lines))

\* "\n".join(lines)
RECURSIVE JoinLines(_)
JoinLines(lines) ==
    IF lines = <<>> THEN <<>>
    ELSE IF Len(lines) = 1 THEN lines[1]
    ELSE lines[1] \o <<NL>> \o JoinLines(Tail(lines))

\* sorted(..., reverse=True): the distinct strings, descending.
RECURSIVE SortedSetReversed(_)
SortedSetReversed(S) ==
    IF S = {} THEN <<>>
    ELSE LET m == CHOOSE s \in S : \A t \in S : s = t \/ StrLess(t, s)
         IN  <<m>> \o SortedSetReversed(S \ {m})

\* The smallest string of a non-empty set.
MinStr(S) == CHOOSE s \in S : \A t \in S : s = t \/ StrLess(s, t)

\* sorted(set(lines)): the distinct strings, ascending.
RECURSIVE SortedSet(_)
SortedSet(S) ==
    IF S = {} THEN <<>>
    ELSE LET m == MinStr(S) IN <<m>> \o SortedSet(S \ {m})

(***************************************************************************)
(* Files.                                                                  *)
(***************************************************************************)
\* cachefiles_to_merge, in the order merge_cachefiles reads them.
MergeOrder ==
    <<"local_known_hosts", "known_hosts", "openstackbrowser",
      "netbox_virtual", "netbox_physical">>

\* The five source cache files of cachefiles.
SourceNames ==
    {"local_known_hosts", "known_hosts", "openstackbrowser",
     "netbox_virtual", "netbox_physical"}

TextFileNames == SourceNames \cup {"merged"}

Missing == [exists |-> FALSE, text |-> <<>>]

FileOf(text) == [exists |-> TRUE, text |-> text]

\* A write in append mode instead of truncating: the old text survives.
WriteTextAppending(old, data) == FileOf(old.text \o data)

\* Path.write_text(data): creates the file or truncates it, then writes.
WriteText(old, data) == FileOf(data)

\* write_to_cache writing the data to the merged file as well.
WriteToCacheAndMerged(fs, name, data) ==
    [fs EXCEPT ![name] = WriteText(fs[name], data),
               !["merged"] = WriteText(fs["merged"], data)]

\* write_to_cache(data, cachefile)
WriteToCache(fs, name, data) ==
    [fs EXCEPT ![name] = WriteText(fs[name], data)]

\* merge_cachefiles with the last file left out of its list.
RECURSIVE GatherLinesButLast(_, _)
GatherLinesButLast(fs, k) ==
    IF k >= Len(MergeOrder) THEN <<>>
    ELSE (IF fs[MergeOrder[k]].exists
          THEN SplitLines(fs[MergeOrder[k]].text)
          ELSE <<>>) \o GatherLinesButLast(fs, k + 1)

\* The lines merge_cachefiles gathers: each existing source file's
\* splitlines(), in MergeOrder.
RECURSIVE GatherLines(_, _)
GatherLines(fs, k) ==
    IF k > Len(MergeOrder) THEN <<>>
    ELSE (IF fs[MergeOrder[k]].exists
          THEN SplitLines(fs[MergeOrder[k]].text)
          ELSE <<>>) \o GatherLines(fs, k + 1)

\* merge_cachefiles(): the file system after the merge.
MergeCachefiles(fs) ==
    LET merged_data == SortedSet(Range(GatherLines(fs, 1)))
    IN  [fs EXCEPT !["merged"] = WriteText(fs["merged"], JoinLines(merged_data))]


(***************************************************************************)
(* The FQDN cache file, fqdn.json.                                         *)
(***************************************************************************)
\* Primary-IP API URLs, the keys of the FQDN cache.
IpUrls == {"ip1", "ip2"}

\* The empty string; it also stands for JSON null and Python None, which
\* the code tells apart from a name only by truthiness.
NoName == <<>>

\* DNS names the primary-IP endpoint can report.
DnsNames == {<<"a">>, <<"b">>}

\* The file as json.load finds it: absent, not decodable, or an object.
CacheMissing == [kind |-> "missing", map |-> <<>>]

CacheCorrupt == [kind |-> "corrupt", map |-> <<>>]

CacheOf(m) == [kind |-> "map", map |-> m]

\* Every mapping from some of the URLs to a name or an empty value.
CacheMaps == UNION {[D -> DnsNames \cup {NoName}] : D \in SUBSET IpUrls}

CacheStates == {CacheMissing, CacheCorrupt} \cup {CacheOf(m) : m \in CacheMaps}

\* A load that takes a file it cannot decode for a mapping with an entry.
LoadCacheGarbled(cache) ==
    IF cache.kind = "map" THEN cache.map ELSE [u \in {"ip1"} |-> <<"b">>]

\* json.load(f) with JSONDecodeError caught: the mapping read from an
\* existing cache file.
LoadCache(cache) == IF cache.kind = "map" THEN cache.map ELSE <<>>

\* A lookup that never finds the key.
CacheGetNothing(data, u) == NoName

\* data.get(url, None)
CacheGet(data, u) == IF u \in DOMAIN data THEN data[u] ELSE NoName

\* An assignment that forgets the other keys of the mapping.
CachePutAlone(data, u, v) == [k \in {u} |-> v]

\* data[url] = dns_name
CachePut(data, u, v) ==
    [k \in (DOMAIN data) \cup {u} |-> IF k = u THEN v ELSE data[k]]

(***************************************************************************)
(* NetBox records and the FQDN resolver, class NetboxHost.                 *)
(***************************************************************************)
DevNames == {<<"a">>}

SiteSlugs == {<<"s">>}

\* A record of the device list: primary is the primary-IP URL, "" when the
\* record's primary_ip is null.
DeviceRecords == [name : DevNames, slug : SiteSlugs, primary : IpUrls \cup {""}]

\* What a GET of a primary-IP URL can answer: a non-success status, or a
\* body whose dns_name is a name, empty or null.
ApiResponses ==
    {[status |-> "error", dns_name |-> NoName]}
    \cup [status : {"ok"}, dns_name : DnsNames \cup {NoName}]

\* f"{self.name}.{self.slug}.wmnet"
WmnetName(name, slug) ==
    name \o <<".">> \o slug \o <<".", "w", "m", "n", "e", "t">>

\* An outcome in which a request that raised has emptied the cache file.
OutcomeWiping(dns, cache, requested, opened, raised) ==
    [dns_name |-> dns,
     cache |-> IF requested /\ raised /\ cache.kind = "map"
               THEN CacheOf(<<>>) ELSE cache,
     requested |-> requested, opened |-> opened, raised |-> raised]

\* The outcome of one call: the device's dns_name, the cache file after
\* it, whether a GET was issued, whether the cache file was opened, and
\* whether the call raised.
Outcome(dns, cache, requested, opened, raised) ==
    [dns_name |-> dns, cache |-> cache, requested |-> requested,
     opened |-> opened, raised |-> raised]

\* _write_fqdn_to_cache with the merge dropped: the mapping is rewritten
\* with the new entry alone.
WriteFqdnAlone(cache, u, dns) == CacheOf(CachePut(<<>>, u, dns))

\* _write_fqdn_to_cache that leaves the file as it is.
WriteFqdnSkipped(cache, u, dns) == cache

\* NetboxHost._write_fqdn_to_cache: load (an undecodable file counts as
\* empty), set the one key, dump the whole mapping and truncate.
WriteFqdnToCache(cache, u, dns) == CacheOf(CachePut(LoadCache(cache), u, dns))

\* _get_fqdn_from_api that caches whatever dns_name the API reports.
GetFqdnFromApiAlways(dev, configured, cache, resp, dns, opened) ==
    IF resp.status = "error"
    THEN Outcome(dns, cache, TRUE, opened, TRUE)
    ELSE IF configured /\ cache.kind = "missing"
    THEN Outcome(resp.dns_name, cache, TRUE, TRUE, TRUE)
    ELSE Outcome(resp.dns_name,
                 IF configured
                 THEN WriteFqdnToCache(cache, dev.primary, resp.dns_name)
                 ELSE cache,
                 TRUE, configured, FALSE)

\* NetboxHost._get_fqdn_from_api, entered with dns_name = dns: GET the
\* primary-IP URL, raise_for_status, and keep and cache a truthy dns_name.
GetFqdnFromApi(dev, configured, cache, resp, dns, opened) ==
    IF resp.status = "error"
    THEN Outcome(dns, cache, TRUE, opened, TRUE)
    ELSE IF resp.dns_name = NoName
    THEN Outcome(dns, cache, TRUE, opened, FALSE)
    ELSE IF ~configured
    THEN Outcome(resp.dns_name, cache, TRUE, opened, FALSE)
    ELSE IF cache.kind = "missing"
    THEN Outcome(resp.dns_name, cache, TRUE, TRUE, TRUE)
    ELSE Outcome(resp.dns_name,
                 WriteFqdnToCache(cache, dev.primary, resp.dns_name),
                 TRUE, TRUE, FALSE)

\* get_fqdn whose lookup takes a missing cache file for an empty one.
GetFqdnMissingAsEmpty(dev, configured, cache, resp) ==
    IF dev.primary = ""
    THEN Outcome(WmnetName(dev.name, dev.slug), cache, FALSE, FALSE, FALSE)
    ELSE LET cached == IF configured
                       THEN CacheGet(LoadCache(cache), dev.primary)
                       ELSE NoName
         IN  IF cached # NoName
             THEN Outcome(cached, cache, FALSE, TRUE, FALSE)
             ELSE GetFqdnFromApi(dev, configured, cache, resp, cached,
                                 configured)

\* get_fqdn without the cache lookup: every device with a primary IP is
\* asked of the API.
GetFqdnNoLookup(dev, configured, cache, resp) ==
    IF dev.primary = ""
    THEN Outcome(WmnetName(dev.name, dev.slug), cache, FALSE, FALSE, FALSE)
    ELSE GetFqdnFromApi(dev, configured, cache, resp, NoName, FALSE)

\* get_fqdn without the early return for a device with no primary IP.
GetFqdnNoEarlyReturn(dev, configured, cache, resp) ==
    IF configured /\ cache.kind = "missing"
    THEN Outcome(NoName, cache, FALSE, TRUE, TRUE)
    ELSE LET cached == IF configured /\ dev.primary # ""
                       THEN CacheGet(LoadCache(cache), dev.primary)
                       ELSE NoName
         IN  IF dev.primary = ""
             THEN Outcome(WmnetName(dev.name, dev.slug), cache,
                          FALSE, configured, FALSE)
             ELSE IF cached # NoName
             THEN Outcome(cached, cache, FALSE, TRUE, FALSE)
             ELSE GetFqdnFromApi(dev, configured, cache, resp, cached,
                                 configured)

\* NetboxHost.get_fqdn for a fresh device (dns_name None), given whether a
\* cache file is configured, the cache file, and what the API would answer.
GetFqdn(dev, configured, cache, resp) ==
    IF dev.primary = ""
    THEN Outcome(WmnetName(dev.name, dev.slug), cache, FALSE, FALSE, FALSE)
    ELSE IF configured /\ cache.kind = "missing"
    THEN \* open(self.cachefile, "r") raises FileNotFoundError
         Outcome(NoName, cache, FALSE, TRUE, TRUE)
    ELSE LET cached == IF configured
                       THEN CacheGet(LoadCache(cache), dev.primary)
                       ELSE NoName
         IN  IF cached # NoName
             THEN Outcome(cached, cache, FALSE, TRUE, FALSE)
             ELSE GetFqdnFromApi(dev, configured, cache, resp, cached,
                                 configured)

(***************************************************************************)
(* The remote and local sources.                                           *)
(***************************************************************************)
\* The f-string URLs the two NetBox routines start their fetch from.
StartUrl(routine) ==
    IF routine = "netbox_virtual" THEN "/virtualization/virtual-machines/"
    ELSE "/dcim/devices/"

\* URLs a page's next can name; "" is a null or empty next.
NextUrls == {"", "/page"}

\* A page response: its HTTP status, whether its body decodes to an
\* envelope, and the envelope's results and next.
PageResponse(status, json, res, next) ==
    [status |-> status, json |-> json, results |-> res, next |-> next]

\* What a GET of a page URL can answer when the inventory may still return
\* n records and may or may not link a further page: a body that does not
\* decode, or an envelope, under either status.
PageResponses(n, more) ==
    {PageResponse(st, FALSE, <<>>, "") : st \in {"ok", "error"}}
    \cup {PageResponse(st, TRUE, res, nx) :
            st \in {"ok", "error"},
            res \in TextsUpTo(DeviceRecords, n),
            nx \in IF more THEN NextUrls ELSE {""}}

\* A small inventory: one page holding no record or one.
SmallInventory ==
    {PageResponse(st, FALSE, <<>>, "") : st \in {"ok", "error"}}
    \cup {PageResponse(st, TRUE, res, "") :
            st \in {"ok", "error"},
            res \in {<<>>} \cup {<<d>> : d \in DeviceRecords}}

\* What a GET of a plain-text endpoint can answer.
TextResponse(status, text) == [status |-> status, text |-> text]

OpenstackResponses ==
    {TextResponse("error", <<>>),
     TextResponse("ok", <<"a">>),
     TextResponse("ok", <<"b", NL, "a", NL>>)}

KnownHostsResponses ==
    {TextResponse("error", <<>>),
     TextResponse("ok", <<"a", ",", "b", " ", "e">>),
     TextResponse("ok", <<"b", ",", "a", NL, "b">>)}

\* ~/.ssh/known_hosts as the run finds it.
LocalKnownHostsFiles ==
    {Missing,
     FileOf(<<"a", " ", "e", NL>>),
     FileOf(<<"a", " ", "e", NL, "a", " ", "m", NL>>),
     FileOf(<<"b", " ", "e", NL, "a", " ", "e">>),
     FileOf(<<"a", " ", "e", NL, NL>>)}

IsSpace(c) == c \in {" ", NL}

\* host_line.split(",", 1)[0]: the part before the first comma.
RECURSIVE BeforeComma(_)
BeforeComma(line) ==
    IF line = <<>> \/ Head(line) = "," THEN <<>>
    ELSE <<Head(line)>> \o BeforeComma(Tail(line))

\* get_known_hosts on the response text.
RECURSIVE CleanHosts(_)
CleanHosts(lines) ==
    IF lines = <<>> THEN <<>>
    ELSE <<BeforeComma(Head(lines))>> \o CleanHosts(Tail(lines))

GetKnownHosts(text) == JoinLines(CleanHosts(SplitLines(text)))

\* The lines a text file yields when iterated, each with its line feed.
RECURSIVE FileLines(_, _)
FileLines(text, cur) ==
    IF text = <<>> THEN (IF cur = <<>> THEN <<>> ELSE <<cur>>)
    ELSE IF Head(text) = NL
         THEN <<Append(cur, NL)>> \o FileLines(Tail(text), <<>>)
         ELSE FileLines(Tail(text), Append(cur, Head(text)))

RECURSIVE DropSpaces(_)
DropSpaces(line) ==
    IF line # <<>> /\ IsSpace(Head(line)) THEN DropSpaces(Tail(line)) ELSE line

RECURSIVE TakeToken(_)
TakeToken(line) ==
    IF line = <<>> \/ IsSpace(Head(line)) THEN <<>>
    ELSE <<Head(line)>> \o TakeToken(Tail(line))

\* line.split(None, 1): empty for a line of white space only, where [0]
\* raises IndexError.
HasToken(line) == DropSpaces(line) # <<>>

\* line.split(None, 1)[0]
FirstToken(line) == TakeToken(DropSpaces(line))

\* The orders in which list(set(...)) can list a set.
Orderings(S) ==
    {s \in [1..Cardinality(S) -> S] : \A x \in S : \E k \in DOMAIN s : s[k] = x}

(***************************************************************************)
(* The orchestrator, main.                                                 *)
(***************************************************************************)
\* The options of main, in the order main tests them.
RoutineOrder ==
    <<"openstack", "known_hosts", "local_known_hosts",
      "netbox_virtual", "netbox_physical">>

NetboxRoutines == {"netbox_virtual", "netbox_physical"}

\* The source cache file each update routine writes.
CacheFileOf(routine) ==
    IF routine = "openstack" THEN "openstackbrowser" ELSE routine

\* selected_updates as the five if-statements build it.
RECURSIVE AppendSelected(_, _)
AppendSelected(fl, k) ==
    IF k > Len(RoutineOrder) THEN <<>>
    ELSE (IF fl[RoutineOrder[k]] THEN <<RoutineOrder[k]>> ELSE <<>>)
         \o AppendSelected(fl, k + 1)

\* main without its "if not selected_updates" default.
SelectedUpdatesNoDefault(fl) == AppendSelected(fl, 1)

\* selected_updates as main passes it to update_selected_caches.
SelectedUpdates(fl) ==
    LET chosen == AppendSelected(fl, 1)
    IN  IF chosen = <<>> THEN RoutineOrder ELSE chosen

(***************************************************************************)
(* State.                                                                  *)
(***************************************************************************)
VARIABLES
    pc,       \* where the run is: idle, update, fetch, resolve, done, aborted
    flags,    \* the options main was called with
    todo,     \* the update routines still to be called
    ran,      \* history: the routines and the merge entered so far, in order
    cur,      \* the NetBox routine in progress, or "none"
    files,    \* the five source cache files and the merged file
    fqdn,     \* the FQDN cache file
    url,      \* fetch_all_results: the url variable
    results,  \* fetch_all_results: the results list
    reqs,     \* history: the page requests of the fetch, with their responses
    i,        \* get_netbox_hosts: the number of records already resolved
    hosts,    \* get_netbox_hosts: the hosts list
    last,     \* history: the latest get_fqdn call
    before,   \* history: the cache files as the run found them
    procs,    \* the invocations that resolve a device at the same time
    answers   \* history of SpecResolve: per URL, what the API last
              \* answered a get_fqdn call that had a cache file configured

vars == <<pc, flags, todo, ran, cur, files, fqdn, url, results, reqs, i,
          hosts, last, before, procs, answers>>

NoFlags ==
    [openstack |-> FALSE, known_hosts |-> FALSE, local_known_hosts |-> FALSE,
     netbox_virtual |-> FALSE, netbox_physical |-> FALSE]

NoResponse == [status |-> "none", dns_name |-> NoName]

NoDevice == [name |-> <<>>, slug |-> <<>>, primary |-> ""]

\* No invocation resolves a device next to the run.
NoProcs == <<>>

\* No primary-IP request has been answered yet.
NoAnswers == [u \in IpUrls |-> "none"]

\* The answers after one more get_fqdn call: a request that was answered
\* with a body is noted under its URL, as a name or as empty.
Answered(ans, dev, configured, resp, out) ==
    IF configured /\ out.requested /\ resp.status = "ok"
    THEN [ans EXCEPT ![dev.primary] =
              IF resp.dns_name = NoName THEN "empty" ELSE "name"]
    ELSE ans

NoLast ==
    [valid |-> FALSE, dev |-> NoDevice, configured |-> FALSE,
     pre |-> CacheMissing, resp |-> NoResponse,
     out |-> Outcome(NoName, CacheMissing, FALSE, FALSE, FALSE)]

\* The record of one get_fqdn call; the response is recorded only when the
\* call issued the request.
LastOf(dev, configured, pre, resp, out) ==
    [valid |-> TRUE, dev |-> dev, configured |-> configured, pre |-> pre,
     resp |-> IF out.requested THEN resp ELSE NoResponse, out |-> out]

\* The contents each source file and the merged file hold from an
\* earlier run.
StaleText(name) ==
    CASE name = "local_known_hosts" -> <<"w">>
      [] name = "known_hosts"       -> <<"n", NL, "a">>
      [] name = "openstackbrowser"  -> <<"t">>
      [] name = "netbox_virtual"    -> <<"m">>
      [] name = "netbox_physical"   -> <<"e", NL, "a">>
      [] OTHER                      -> <<"s">>

\* The cache directory before a run: empty, or holding an earlier run's
\* files.
InitialFileSystems ==
    {[n \in TextFileNames |-> Missing],
     [n \in TextFileNames |-> FileOf(StaleText(n))]}

(***************************************************************************)
(* The run of main.                                                        *)
(***************************************************************************)
\* The state before main is called, given what the cache directory holds.
InitWith(fileSystems, caches) ==
    /\ pc = "idle"
    /\ flags = NoFlags
    /\ todo = <<>>
    /\ ran = <<>>
    /\ cur = "none"
    /\ files \in fileSystems
    /\ fqdn \in caches
    /\ url = ""
    /\ results = <<>>
    /\ reqs = <<>>
    /\ i = 0
    /\ hosts = <<>>
    /\ last = NoLast
    /\ before = files
    /\ procs = NoProcs
    /\ answers = NoAnswers

\* The options of one call of main.
Flags(o, k, l, v, p) ==
    [openstack |-> o, known_hosts |-> k, local_known_hosts |-> l,
     netbox_virtual |-> v, netbox_physical |-> p]

\* main is called with some options, NetBox options alone if netboxOnly:
\* it builds selected_updates and enters update_selected_caches.
MainWith(netboxOnly) ==
    /\ pc = "idle"
    /\ \E o \in BOOLEAN, k \in BOOLEAN, l \in BOOLEAN, v \in BOOLEAN,
          p \in BOOLEAN :
          /\ netboxOnly => ~o /\ ~k /\ ~l /\ (v \/ p)
          /\ flags' = Flags(o, k, l, v, p)
          /\ todo' = SelectedUpdates(Flags(o, k, l, v, p))
    /\ pc' = "update"
    /\ UNCHANGED <<ran, cur, files, fqdn, url, results, reqs, i, hosts, last,
                   before, procs, answers>>

\* An exception that undoes the run: the cache files are put back as the
\* run found them.
AbortRollingBack ==
    /\ pc' = "aborted"
    /\ files' = before
    /\ UNCHANGED <<flags, todo, cur, fqdn, url, results, i, hosts>>

\* An exception leaves the routine and main: nothing more is written.
Abort ==
    /\ pc' = "aborted"
    /\ UNCHANGED <<flags, todo, cur, files, fqdn, url, results, i, hosts>>

\* A routine returned: its file is written and the loop moves on.
Finish(routine, data) ==
    /\ files' = WriteToCache(files, CacheFileOf(routine), data)
    /\ todo' = Tail(todo)
    /\ cur' = "none"
    /\ pc' = "update"

NextIs(routine) == pc = "update" /\ todo # <<>> /\ Head(todo) = routine

\* update_openstack_cache
UpdateOpenstack ==
    /\ NextIs("openstack")
    /\ ran' = Append(ran, "openstack")
    /\ UNCHANGED <<before, procs, answers>>
    /\ \E resp \in OpenstackResponses :
          IF resp.status = "error"
          THEN Abort /\ UNCHANGED <<reqs, last>>
          ELSE /\ Finish("openstack", resp.text)
               /\ UNCHANGED <<flags, fqdn, url, results, reqs, i, hosts, last>>

\* update_known_hosts_cache
UpdateKnownHosts ==
    /\ NextIs("known_hosts")
    /\ ran' = Append(ran, "known_hosts")
    /\ UNCHANGED <<before, procs, answers>>
    /\ \E resp \in KnownHostsResponses :
          IF resp.status = "error"
          THEN Abort /\ UNCHANGED <<reqs, last>>
          ELSE /\ Finish("known_hosts", GetKnownHosts(resp.text))
               /\ UNCHANGED <<flags, fqdn, url, results, reqs, i, hosts, last>>

\* update_local_known_hosts_cache: open raises when the file is missing,
\* [0] raises on a line without a token, and the set is listed in any order.
UpdateLocalKnownHosts ==
    /\ NextIs("local_known_hosts")
    /\ ran' = Append(ran, "local_known_hosts")
    /\ UNCHANGED <<before, procs, answers>>
    /\ \E f \in LocalKnownHostsFiles :
          LET lines == FileLines(f.text, <<>>) IN
          IF ~f.exists \/ \E k \in DOMAIN lines : ~HasToken(lines[k])
          THEN Abort /\ UNCHANGED <<reqs, last>>
          ELSE \E clean_hosts \in
                    Orderings({FirstToken(lines[k]) : k \in DOMAIN lines}) :
                  /\ Finish("local_known_hosts", JoinLines(clean_hosts))
                  /\ UNCHANGED <<flags, fqdn, url, results, reqs, i, hosts,
                                 last>>

\* update_netbox_virtual_cache and update_netbox_physical_cache enter
\* get_netbox_hosts, which enters fetch_all_results.
NetboxStart ==
    /\ \E r \in NetboxRoutines :
          /\ NextIs(r)
          /\ cur' = r
          /\ ran' = Append(ran, r)
          /\ url' = StartUrl(r)
    /\ results' = <<>>
    /\ reqs' = <<>>
    /\ i' = 0
    /\ hosts' = <<>>
    /\ last' = NoLast
    /\ pc' = "fetch"
    /\ UNCHANGED <<flags, todo, files, fqdn, before, procs, answers>>

\* fetch_all_results assigning each page's results instead of extending.
FetchPageAssigning(responses) ==
    /\ pc = "fetch"
    /\ url # ""
    /\ \E resp \in responses :
          /\ reqs' = Append(reqs, [url |-> url, resp |-> resp])
          /\ IF ~resp.json
             THEN Abort
             ELSE /\ results' = resp.results
                  /\ url' = resp.next
                  /\ pc' = IF resp.next = "" THEN "resolve" ELSE "fetch"
                  /\ UNCHANGED <<flags, todo, cur, files, fqdn, i, hosts>>
    /\ UNCHANGED <<ran, last, before, procs, answers>>

\* One turn of the while loop of fetch_all_results, the inventory
\* answering with one of the given responses: GET url, decode the body,
\* extend results, follow next.  The status is never looked at.
FetchPageFrom(responses) ==
    /\ pc = "fetch"
    /\ url # ""
    /\ \E resp \in responses :
          /\ reqs' = Append(reqs, [url |-> url, resp |-> resp])
          /\ IF ~resp.json
             THEN Abort
             ELSE /\ results' = results \o resp.results
                  /\ url' = resp.next
                  /\ pc' = IF resp.next = "" THEN "resolve" ELSE "fetch"
                  /\ UNCHANGED <<flags, todo, cur, files, fqdn, i, hosts>>
    /\ UNCHANGED <<ran, last, before, procs, answers>>

\* One turn of the for loop of get_netbox_hosts: build the device, resolve
\* it, keep its name if it has one.
ResolveDevice ==
    /\ pc = "resolve"
    /\ i < Len(results)
    /\ \E resp \in ApiResponses :
          LET dev == results[i + 1]
              out == GetFqdn(dev, TRUE, fqdn, resp)
          IN  /\ last' = LastOf(dev, TRUE, fqdn, resp, out)
              /\ fqdn' = out.cache
              /\ IF out.raised
                 THEN /\ pc' = "aborted"
                      /\ UNCHANGED <<i, hosts>>
                 ELSE /\ pc' = "resolve"
                      /\ i' = i + 1
                      /\ hosts' = IF out.dns_name # NoName
                                  THEN Append(hosts, out.dns_name)
                                  ELSE hosts
    /\ reqs' = <<>>
    /\ UNCHANGED <<flags, todo, ran, cur, files, url, results, before, procs,
                   answers>>

\* get_netbox_hosts returns the joined hosts and the routine writes them.
NetboxFinish ==
    /\ pc = "resolve"
    /\ i = Len(results)
    /\ Finish(cur, JoinLines(hosts))
    /\ results' = <<>>
    /\ reqs' = <<>>
    /\ i' = 0
    /\ hosts' = <<>>
    /\ last' = NoLast
    /\ UNCHANGED <<flags, ran, fqdn, url, before, procs, answers>>

\* update_selected_caches returned: main calls merge_cachefiles and ends.
Merge ==
    /\ pc = "update"
    /\ todo = <<>>
    /\ files' = MergeCachefiles(files)
    /\ ran' = Append(ran, "merge")
    /\ pc' = "done"
    /\ UNCHANGED <<flags, todo, cur, fqdn, url, results, reqs, i, hosts, last,
                   before, procs, answers>>

(***************************************************************************)
(* Spec: a run of main with any options, over a small inventory.           *)
(***************************************************************************)
\* The FQDN cache before such a run.
FewCaches ==
    {CacheMissing, CacheCorrupt, CacheOf(<<>>),
     CacheOf([u \in {"ip1"} |-> <<"b">>])}

Init == InitWith(InitialFileSystems, FewCaches)

Main == MainWith(FALSE)

FetchPage == FetchPageFrom(SmallInventory)

Next ==
    \/ Main
    \/ UpdateOpenstack
    \/ UpdateKnownHosts
    \/ UpdateLocalKnownHosts
    \/ NetboxStart
    \/ FetchPage
    \/ ResolveDevice
    \/ NetboxFinish
    \/ Merge

Spec == Init /\ [][Next]_vars

(***************************************************************************)
(* SpecNetbox: a run of main with NetBox options only, over any cache and  *)
(* any inventory within the bounds.                                        *)
(***************************************************************************)
InitNetbox ==
    InitWith({[n \in TextFileNames |-> FileOf(StaleText(n))]}, CacheStates)

MainNetbox == MainWith(TRUE)

FetchPageBounded ==
    FetchPageFrom(PageResponses(MaxRecords - Len(results),
                                Len(reqs) + 1 < MaxPages))

NextNetbox ==
    \/ MainNetbox
    \/ NetboxStart
    \/ FetchPageBounded
    \/ ResolveDevice
    \/ NetboxFinish
    \/ Merge

SpecNetbox == InitNetbox /\ [][NextNetbox]_vars

(***************************************************************************)
(* SpecMerge: merge_cachefiles over any five source files within the       *)
(* bound, run up to MaxMerges times in a row.                              *)
(***************************************************************************)
MergeChars == {NL, "a", "b"}

\* A source file as the merger can find it: missing, or any text of at
\* most n characters.
SourceFilesUpTo(n) ==
    {Missing} \cup {FileOf(t) : t \in TextsUpTo(MergeChars, n)}

\* The cache directory with the given source files and merged file.
MergeInput(lkh, kh, osb, nv, np, m) ==
    [n \in TextFileNames |->
        CASE n = "local_known_hosts" -> lkh
          [] n = "known_hosts"       -> kh
          [] n = "openstackbrowser"  -> osb
          [] n = "netbox_virtual"    -> nv
          [] n = "netbox_physical"   -> np
          [] OTHER                   -> m]

\* The cache directories the merger is run on: source files of at most
\* MaxChars characters in all, the merged file missing or stale.
IsMergeInput(fs) ==
    \E lkh \in SourceFilesUpTo(MaxChars) :
    \E kh \in SourceFilesUpTo(MaxChars - Len(lkh.text)) :
    \E osb \in SourceFilesUpTo(MaxChars - Len(lkh.text) - Len(kh.text)) :
    \E nv \in SourceFilesUpTo(MaxChars - Len(lkh.text) - Len(kh.text)
                                - Len(osb.text)) :
    \E np \in SourceFilesUpTo(MaxChars - Len(lkh.text) - Len(kh.text)
                                - Len(osb.text) - Len(nv.text)) :
    \E m \in {Missing, FileOf(StaleText("merged"))} :
        fs = MergeInput(lkh, kh, osb, nv, np, m)

\* update_selected_caches has returned and main is about to merge.
InitMerge ==
    /\ pc = "update"
    /\ flags = NoFlags
    /\ todo = <<>>
    /\ ran = <<>>
    /\ cur = "none"
    /\ IsMergeInput(files)
    /\ fqdn = CacheMissing
    /\ url = ""
    /\ results = <<>>
    /\ reqs = <<>>
    /\ i = 0
    /\ hosts = <<>>
    /\ last = NoLast
    /\ before = files
    /\ procs = NoProcs
    /\ answers = NoAnswers

\* merge_cachefiles is called once more, the source files as they were.
MergeAgain ==
    /\ pc = "done"
    /\ Len(ran) < MaxMerges
    /\ files' = MergeCachefiles(files)
    /\ ran' = Append(ran, "merge")
    /\ UNCHANGED <<pc, flags, todo, cur, fqdn, url, results, reqs, i, hosts,
                   last, before, procs, answers>>

NextMerge ==
    \/ Merge
    \/ MergeAgain

SpecMerge == InitMerge /\ [][NextMerge]_vars

(***************************************************************************)
(* SpecResolve: get_fqdn called on any device, with or without a cache     *)
(* file configured, any number of times over one cache file.               *)
(***************************************************************************)
ResolverDevices ==
    [name : {<<"a">>, <<"b">>}, slug : {<<"s">>, <<"t">>},
     primary : IpUrls \cup {""}]

InitResolve ==
    /\ pc = "call"
    /\ flags = NoFlags
    /\ todo = <<>>
    /\ ran = <<>>
    /\ cur = "none"
    /\ files = [n \in TextFileNames |-> Missing]
    /\ fqdn \in CacheStates
    /\ url = ""
    /\ results = <<>>
    /\ reqs = <<>>
    /\ i = 0
    /\ hosts = <<>>
    /\ last = NoLast
    /\ before = files
    /\ procs = NoProcs
    /\ answers = NoAnswers

\* NetboxHost(name, slug, cachefile, primary_ip_url).get_fqdn()
GetFqdnCall ==
    /\ pc = "call"
    /\ \E dev \in ResolverDevices, configured \in BOOLEAN,
          resp \in ApiResponses :
          LET out == GetFqdn(dev, configured, fqdn, resp)
          IN  /\ last' = LastOf(dev, configured, fqdn, resp, out)
              /\ fqdn' = out.cache
              /\ answers' = Answered(answers, dev, configured, resp, out)
    /\ UNCHANGED <<pc, flags, todo, ran, cur, files, url, results, reqs, i,
                   hosts, before, procs>>

NextResolve == GetFqdnCall

SpecResolve == InitResolve /\ [][NextResolve]_vars

(***************************************************************************)
(* SpecConc: two invocations of the tool resolve one device each over the  *)
(* same cache file at the same time.  Nothing locks the file, so the       *)
(* json.load and the json.dump of one write-back are separate steps.       *)
(***************************************************************************)
Procs == {1, 2}

\* An invocation about to call get_fqdn on a device with a primary IP.
ProcStart ==
    [pc |-> "lookup", url |-> "", dns_name |-> NoName, data |-> <<>>,
     seen |-> {}, rank |-> 0]

\* The invocations whose write-back has dumped the mapping.
Dumped == {q \in Procs : procs[q].rank > 0}

InitConc ==
    /\ pc = "call"
    /\ flags = NoFlags
    /\ todo = <<>>
    /\ ran = <<>>
    /\ cur = "none"
    /\ files = [n \in TextFileNames |-> Missing]
    /\ fqdn \in CacheStates
    /\ url = ""
    /\ results = <<>>
    /\ reqs = <<>>
    /\ i = 0
    /\ hosts = <<>>
    /\ last = NoLast
    /\ before = files
    /\ procs = [p \in Procs |-> ProcStart]
    /\ answers = NoAnswers

\* All but the cache file and the invocations stay as they are.
ConcFrame ==
    UNCHANGED <<pc, flags, todo, ran, cur, files, url, results, reqs, i,
                hosts, last, before, answers>>

\* get_fqdn of invocation p up to the end of _get_fqdn_from_cache: open
\* raises when the file is missing; a cached name ends the call.
ConcLookup(p) ==
    /\ procs[p].pc = "lookup"
    /\ \E u \in IpUrls :
          LET cached == CacheGet(LoadCache(fqdn), u)
          IN  procs' = [procs EXCEPT
                  ![p].url = u,
                  ![p].dns_name = IF fqdn.kind = "missing" THEN NoName
                                  ELSE cached,
                  ![p].pc = IF fqdn.kind = "missing" THEN "failed"
                            ELSE IF cached # NoName THEN "done"
                            ELSE "api"]
    /\ UNCHANGED fqdn
    /\ ConcFrame

\* _get_fqdn_from_api of invocation p up to the call of
\* _write_fqdn_to_cache.
ConcApi(p) ==
    /\ procs[p].pc = "api"
    /\ \E resp \in ApiResponses :
          procs' = [procs EXCEPT
              ![p].dns_name = IF resp.status = "error" THEN @
                              ELSE IF resp.dns_name = NoName THEN @
                              ELSE resp.dns_name,
              ![p].pc = IF resp.status = "error" THEN "failed"
                        ELSE IF resp.dns_name = NoName THEN "done"
                        ELSE "load"]
    /\ UNCHANGED fqdn
    /\ ConcFrame

\* _write_fqdn_to_cache of invocation p, first half: open "r+", which
\* raises when the file is missing, and json.load.
ConcLoad(p) ==
    /\ procs[p].pc = "load"
    /\ procs' = [procs EXCEPT
           ![p].data = LoadCache(fqdn),
           ![p].seen = Dumped,
           ![p].pc = IF fqdn.kind = "missing" THEN "failed" ELSE "dump"]
    /\ UNCHANGED fqdn
    /\ ConcFrame

\* _write_fqdn_to_cache of invocation p, second half: set the key in the
\* mapping it loaded, seek(0), json.dump, truncate.
ConcDump(p) ==
    /\ procs[p].pc = "dump"
    /\ fqdn' = CacheOf(CachePut(procs[p].data, procs[p].url,
                                procs[p].dns_name))
    /\ procs' = [procs EXCEPT
           ![p].rank = Cardinality(Dumped) + 1,
           ![p].pc = "done"]
    /\ ConcFrame

NextConc ==
    \E p \in Procs :
        \/ ConcLookup(p)
        \/ ConcApi(p)
        \/ ConcLoad(p)
        \/ ConcDump(p)

SpecConc == InitConc /\ [][NextConc]_vars

(***************************************************************************)
(* Properties.                                                             *)
(***************************************************************************)
\* The entries of a cache file: none when it is missing or not decodable.
Entries(cache) == IF cache.kind = "map" THEN cache.map ELSE <<>>

\* The device of the latest get_fqdn call had its URL cached with a name.
LastWasCached ==
    /\ last.valid
    /\ last.dev.primary # ""
    /\ last.configured
    /\ last.dev.primary \in DOMAIN Entries(last.pre)
    /\ Entries(last.pre)[last.dev.primary] # NoName

\* C1: when the device's primary-IP URL is in the FQDN cache with a
\* non-empty value, get_fqdn issues no request, sets the DNS name to the
\* cached value, and leaves the cache as it was.
C1_CacheReadThrough ==
    LastWasCached =>
        /\ ~last.out.requested
        /\ ~last.out.raised
        /\ last.out.dns_name = Entries(last.pre)[last.dev.primary]
        /\ fqdn = last.pre

\* A device was resolved from the cache while the API was never asked, and
\* its cached name went to the hosts list.
C1_Witness ==
    /\ LastWasCached
    /\ pc = "resolve"
    /\ hosts # <<>>
    /\ hosts[Len(hosts)] = Entries(last.pre)[last.dev.primary]

\* The latest get_fqdn call found its URL absent from the cache and got a
\* name from the API.
LastWasFetched ==
    /\ last.valid
    /\ last.dev.primary # ""
    /\ last.configured
    /\ last.dev.primary \notin DOMAIN Entries(last.pre)
    /\ last.resp.status = "ok"
    /\ last.resp.dns_name # NoName

\* C2: when the URL is absent from the cache and the API reports a
\* non-empty dns_name, the cache afterwards maps the URL to that name and
\* keeps every earlier entry with its value.
C2_CacheWriteThrough ==
    LastWasFetched =>
        /\ fqdn.kind = "map"
        /\ last.dev.primary \in DOMAIN fqdn.map
        /\ fqdn.map[last.dev.primary] = last.resp.dns_name
        /\ \A k \in DOMAIN Entries(last.pre) :
              k \in DOMAIN fqdn.map /\ fqdn.map[k] = Entries(last.pre)[k]

\* A name was written to a cache that already held another URL's entry.
C2_Witness ==
    /\ LastWasFetched
    /\ DOMAIN Entries(last.pre) # {}
    /\ fqdn # last.pre
    /\ pc = "resolve"

\* C3: in a run, no step removes a key of the FQDN cache, and no step
\* changes the value of a key that holds a non-empty value.
C3_CacheMonotone ==
    [][\A u \in DOMAIN Entries(fqdn) :
          /\ u \in DOMAIN Entries(fqdn')
          /\ Entries(fqdn)[u] # NoName => Entries(fqdn')[u] = Entries(fqdn)[u]
      ]_vars

\* The second NetBox routine added an entry to a cache that held a name,
\* which is still there.
C3_Witness ==
    /\ last.valid
    /\ cur = "netbox_physical"
    /\ Len(ran) = 2
    /\ fqdn # last.pre
    /\ \E u \in DOMAIN Entries(last.pre) :
          /\ Entries(last.pre)[u] # NoName
          /\ Entries(fqdn)[u] = Entries(last.pre)[u]

\* C4: for a device with no primary-IP reference, get_fqdn sets the DNS
\* name to name, ".", site slug, ".wmnet", issues no request and neither
\* reads nor writes the cache file, configured or not, present or not.
C4_NoPrimaryIp ==
    (last.valid /\ last.dev.primary = "") =>
        /\ last.out.dns_name =
              last.dev.name \o <<".">> \o last.dev.slug
                 \o <<".", "w", "m", "n", "e", "t">>
        /\ ~last.out.requested
        /\ ~last.out.opened
        /\ ~last.out.raised
        /\ fqdn = last.pre

\* A device with no primary IP was named although a cache file was
\* configured and missing.
C4_Witness ==
    /\ last.valid
    /\ last.dev.primary = ""
    /\ last.configured
    /\ last.pre = CacheMissing
    /\ last.dev.name = <<"b">>
    /\ last.dev.slug = <<"t">>
    /\ last.out.dns_name = <<"b", ".", "t", ".", "w", "m", "n", "e", "t">>

SourceLines(fs) ==
    UNION {Range(SplitLines(fs[n].text)) : n \in {m \in SourceNames : fs[m].exists}}

\* str.split("\n"): the pieces of a text between its line feeds.
RECURSIVE Pieces(_, _)
Pieces(text, piece) ==
    IF text = <<>> THEN <<piece>>
    ELSE IF Head(text) = NL
         THEN <<piece>> \o Pieces(Tail(text), <<>>)
         ELSE Pieces(Tail(text), Append(piece, Head(text)))

\* The text holds the strings of S, each once, ascending, a line feed
\* between each two and nothing else.
HoldsSorted(text, S) ==
    IF S = {} THEN text = <<>>
    ELSE LET L == Pieces(text, <<>>)
         IN  /\ Range(L) = S
             /\ \A k \in 1..(Len(L) - 1) : StrLess(L[k], L[k + 1])

\* C6: whatever the five source files hold and whichever are missing, the
\* merge ends, and the merged file then holds the distinct lines of the
\* existing source files, each once, ascending, and nothing else.
C6_MergeCorrect ==
    (pc = "done" /\ Len(ran) = 1) =>
        /\ files["merged"].exists
        /\ HoldsSorted(files["merged"].text, SourceLines(files))

\* A merge over a missing file, a duplicated line and an unsorted file
\* replaced the old merged file.
C6_Witness ==
    /\ pc = "done"
    /\ Len(ran) = 1
    /\ ~files["local_known_hosts"].exists
    /\ files["known_hosts"].text = <<"b", NL, "a">>
    /\ files["netbox_physical"].text = <<"a">>
    /\ files["merged"].text = <<"a", NL, "b">>

\* C7: a second run of the merger over unchanged source files leaves the
\* merged file as the first run left it.
C7_MergeIdempotent ==
    [][(pc = "done" /\ pc' = "done") => files'["merged"] = files["merged"]]_vars

\* The merger has run twice over source files with lines.
C7_Witness ==
    /\ pc = "done"
    /\ ran = <<"merge", "merge">>
    /\ Len(files["merged"].text) >= 3

\* The routines in the fixed order.
FixedOrder ==
    <<"openstack", "known_hosts", "local_known_hosts",
      "netbox_virtual", "netbox_physical">>

\* The routines a run with the given options must execute, in order.
Expected(fl) ==
    LET Chosen(r) == fl[r] \/ \A q \in DOMAIN fl : ~fl[q]
    IN  SelectSeq(FixedOrder, Chosen)

IsPrefix(s, t) == Len(s) <= Len(t) /\ \A k \in DOMAIN s : s[k] = t[k]

\* C8: the routines entered are those of the set options, all five when
\* none is set, in the fixed order; one is entered only when the one
\* before it has returned, and a run that ends has entered them all.
C8_SelectionAndOrder ==
    pc # "idle" =>
        /\ IsPrefix(ran, Expected(flags) \o <<"merge">>)
        /\ pc = "done" => ran = Expected(flags) \o <<"merge">>
        /\ pc = "update" => ran \o todo = Expected(flags)
        /\ pc \in {"fetch", "resolve"} =>
              /\ ran # <<>>
              /\ cur = ran[Len(ran)]
              /\ todo # <<>>
              /\ cur = Head(todo)
              /\ (SubSeq(ran, 1, Len(ran) - 1) \o todo) = Expected(flags)
        /\ cur # "none" => pc \in {"fetch", "resolve", "aborted"}

\* A run with no option set ended having run all five routines.
C8_Witness ==
    /\ pc = "done"
    /\ flags = NoFlags
    /\ Len(ran) = Len(FixedOrder) + 1

\* C9: the merger runs only when the selected routines have all returned,
\* once and last, and the run ends with the merged file holding the sorted
\* distinct lines of the five source files as they then are.
C9_MergeFollowsUpdates ==
    /\ (\E k \in DOMAIN ran : ran[k] = "merge") =>
          /\ pc = "done"
          /\ todo = <<>>
          /\ \A k \in DOMAIN ran : ran[k] = "merge" <=> k = Len(ran)
    /\ pc = "done" =>
          /\ ran # <<>>
          /\ ran[Len(ran)] = "merge"
          /\ files["merged"].exists
          /\ HoldsSorted(files["merged"].text, SourceLines(files))

\* A run with one option ended with lines of an unselected, stale source
\* file and of the fresh one in the merged file.
C9_Witness ==
    /\ pc = "done"
    /\ ran = <<"openstack", "merge">>
    /\ files["openstackbrowser"].text = <<"b", NL, "a", NL>>
    /\ files["netbox_physical"] = FileOf(StaleText("netbox_physical"))
    /\ files["merged"].text =
          <<"a", NL, "b", NL, "e", NL, "m", NL, "n", NL, "w">>

\* results of the pages requested so far, in order.
RECURSIVE PagesResults(_, _)
PagesResults(log, k) ==
    IF k > Len(log) THEN <<>>
    ELSE log[k].resp.results \o PagesResults(log, k + 1)

\* C10: the fetch requests the given URL first and then each page's next,
\* once each, requests nothing after a page whose next is null or empty,
\* and returns the pages' results concatenated in page order.
C10_Pagination ==
    (pc \in {"fetch", "resolve"} /\ reqs # <<>>) =>
        /\ reqs[1].url = StartUrl(cur)
        /\ \A k \in 2..Len(reqs) : reqs[k].url = reqs[k - 1].resp.next
        /\ \A k \in 1..(Len(reqs) - 1) : reqs[k].resp.next # ""
        /\ pc = "fetch" => url = reqs[Len(reqs)].resp.next /\ url # ""
        /\ pc = "resolve" => reqs[Len(reqs)].resp.next = ""
        /\ results = PagesResults(reqs, 1)

\* A fetch returned the records of MaxPages pages, the first ones not
\* empty.
C10_Witness ==
    /\ pc = "resolve"
    /\ Len(reqs) = MaxPages
    /\ reqs[1].resp.results # <<>>
    /\ reqs[2].resp.results # <<>>
    /\ Len(results) = MaxRecords

\* C11: a fetch one of whose page requests was answered with a non-success
\* HTTP status raises, whatever the body: it requests no further page and
\* returns no results.
C11_FetchFailsOnHttpError ==
    \A k \in DOMAIN reqs : reqs[k].resp.status = "error" => pc = "aborted"

\* The source files of the routines that returned before the latest one
\* entered.
CompletedFiles == {CacheFileOf(ran[k]) : k \in 1..(Len(ran) - 1)}

\* The run was aborted by an HTTP failure: a non-success status of the
\* OpenStack or known-hosts request, or of a primary-IP request.
HttpAborted ==
    /\ pc = "aborted"
    /\ ran # <<>>
    /\ \/ ran[Len(ran)] \in {"openstack", "known_hosts"}
       \/ ran[Len(ran)] \in NetboxRoutines /\ last.resp.status = "error"

\* C12: when a selected routine fails with an HTTP failure, nothing runs
\* after it, neither a later routine nor the merge; the files of the
\* routines that returned before it hold what those wrote, and the failing
\* routine's file, the later routines' files and the merged file are as
\* the run found them.
C12_AbortWithoutRollback ==
    /\ [][pc # "aborted"]_vars
    /\ [](HttpAborted =>
            /\ IsPrefix(ran, Expected(flags))
            /\ todo # <<>>
            /\ Head(todo) = ran[Len(ran)]
            /\ \A n \in CompletedFiles :
                  files[n].exists /\ files[n] # before[n]
            /\ \A n \in TextFileNames \ CompletedFiles :
                  files[n] = before[n])

\* A primary-IP request failed in the first NetBox routine after the
\* OpenStack routine had replaced its stale file.
C12_Witness ==
    /\ HttpAborted
    /\ ran = <<"openstack", "netbox_virtual">>
    /\ last.resp.status = "error"
    /\ before["openstackbrowser"] = FileOf(StaleText("openstackbrowser"))
    /\ files["openstackbrowser"] = FileOf(<<"b", NL, "a", NL>>)
    /\ files["netbox_virtual"] = FileOf(StaleText("netbox_virtual"))
    /\ files["merged"] = FileOf(StaleText("merged"))

\* The texts a routine can hand to write_to_cache, given the hosts list of
\* the device-list builder: the OpenStack response text, the known-hosts
\* names, the local known-hosts names in either order, the joined hosts.
Returned(routine, hostList) ==
    CASE routine = "openstack" ->
            {<<"a">>, <<"b", NL, "a", NL>>}
      [] routine = "known_hosts" ->
            {<<"a">>, <<"b", NL, "b">>}
      [] routine = "local_known_hosts" ->
            {<<"a">>, <<"a", NL, "b">>, <<"b", NL, "a">>}
      [] OTHER ->
            {JoinLines(hostList)}

\* C13: a step of an update routine changes no source file but the
\* routine's own and never the merged file, and when the routine returns
\* its file holds exactly the text it produced; the merge changes no
\* source file and not the FQDN cache, and writes the merged file.
C13_FileOwnership ==
    [][IF ran' = Append(ran, "merge")
       THEN /\ \A n \in SourceNames : files'[n] = files[n]
            /\ fqdn' = fqdn
            /\ files'["merged"].exists
       ELSE /\ files'["merged"] = files["merged"]
            /\ \A n \in SourceNames :
                  files'[n] # files[n] =>
                     todo # <<>> /\ n = CacheFileOf(Head(todo))
            /\ (todo # <<>> /\ todo' = Tail(todo)) =>
                  \E data \in Returned(Head(todo), hosts) :
                     files'[CacheFileOf(Head(todo))] = FileOf(data)
      ]_vars

\* The five routines have each replaced their stale file, the second
\* NetBox routine last, and the merge has then replaced the merged file.
C13_Witness ==
    /\ pc = "done"
    /\ Len(ran) = 6
    /\ \A n \in TextFileNames :
          before[n] = FileOf(StaleText(n)) /\ files[n] # before[n]
    /\ files["netbox_physical"] = FileOf(WmnetName(<<"a">>, <<"s">>))
    /\ fqdn = CacheOf([u \in {"ip1"} |-> <<"b">>])

\* The cache no longer maps the URL of invocation q to the name q wrote.
Lost(q) ==
    /\ procs[q].rank > 0
    /\ CacheGet(Entries(fqdn), procs[q].url) # procs[q].dns_name

\* Invocation p dumped after q a mapping it had loaded before q dumped.
Overwrote(p, q) ==
    /\ procs[q].rank > 0
    /\ procs[p].rank > procs[q].rank
    /\ q \notin procs[p].seen

\* C14: with two invocations writing back at the same time, an entry one
\* of them wrote is missing from the cache exactly when the other dumped
\* later a mapping it had loaded before (or a different name for the same
\* URL); with write-backs that do not overlap on different URLs nothing is
\* lost.
C14_LostUpdate ==
    \A q \in Procs :
        Lost(q) <=>
            \E p \in Procs \ {q} :
                /\ procs[p].rank > procs[q].rank
                /\ procs[q].rank > 0
                /\ IF procs[p].url = procs[q].url
                   THEN procs[p].dns_name # procs[q].dns_name
                   ELSE q \notin procs[p].seen

\* Both write-backs have completed, on different URLs over a cache that
\* was an empty mapping, and the cache holds one entry only.
C14_Witness ==
    /\ \A p \in Procs : procs[p].pc = "done" /\ procs[p].rank > 0
    /\ procs[1].url # procs[2].url
    /\ Lost(1)
    /\ Overwrote(2, 1)
    /\ procs[2].data = <<>>
    /\ fqdn.kind = "map"
    /\ DOMAIN fqdn.map = {procs[2].url}

\* The latest get_fqdn call was for a device with a primary IP and found
\* the cache file present but not decodable.
LastFoundCorrupt ==
    /\ last.valid
    /\ last.dev.primary # ""
    /\ last.configured
    /\ last.pre = CacheCorrupt

\* C15: with the cache file present but empty or not decodable, get_fqdn
\* on a device with a primary IP gets no error from the file: it asks the
\* API, fails only if the API request does, and when the API reports a
\* name it leaves the file a mapping holding that one entry and nothing
\* else; when the API reports no name the file is not touched.
C15_CorruptCacheTolerated ==
    LastFoundCorrupt =>
        /\ last.out.requested
        /\ last.out.raised <=> last.resp.status = "error"
        /\ (last.resp.status = "ok" /\ last.resp.dns_name # NoName) =>
              /\ last.out.dns_name = last.resp.dns_name
              /\ fqdn.kind = "map"
              /\ DOMAIN fqdn.map = {last.dev.primary}
              /\ fqdn.map[last.dev.primary] = last.resp.dns_name
        /\ (last.resp.status = "error" \/ last.resp.dns_name = NoName) =>
              fqdn = CacheCorrupt

\* A name was written back over an undecodable cache file: the file is a
\* mapping with that entry alone and the name is in the hosts list.
C15_Witness ==
    /\ LastFoundCorrupt
    /\ pc = "resolve"
    /\ last.dev.primary = "ip2"
    /\ last.resp.dns_name = <<"a">>
    /\ fqdn = CacheOf([u \in {"ip2"} |-> <<"a">>])
    /\ hosts = <<<<"a">>>>

\* C16: the device-list builder takes the fetched records one by one in
\* the order of the fetch, appends the name of each record that got one
\* to the end of its list and nothing for the others, and returns the
\* names so listed, one per line, unsorted and with repeats kept.
C16_HostsInFetchOrder ==
    /\ [](pc = "resolve" => Len(hosts) <= i /\ i <= Len(results))
    /\ [][/\ (pc = "resolve" /\ pc' = "resolve") =>
               /\ i' = i + 1
               /\ results' = results
               /\ last'.dev = results[i + 1]
               /\ hosts' = IF last'.out.dns_name # NoName
                           THEN hosts \o <<last'.out.dns_name>>
                           ELSE hosts
          /\ (pc = "resolve" /\ pc' = "update") =>
               /\ i = Len(results)
               /\ files'[CacheFileOf(cur)].exists
               /\ IF hosts = <<>>
                  THEN files'[CacheFileOf(cur)].text = <<>>
                  ELSE Pieces(files'[CacheFileOf(cur)].text, <<>>) = hosts
         ]_vars

\* The first NetBox routine returned two names in descending order and
\* the second has listed one name twice.
C16_Witness ==
    /\ pc = "resolve"
    /\ cur = "netbox_physical"
    /\ files["netbox_virtual"] = FileOf(<<"b", NL, "a">>)
    /\ i = 2
    /\ results[1] = results[2]
    /\ hosts = <<<<"a">>, <<"a">>>>

\* C17: once the API has answered a get_fqdn call that had the cache file
\* configured with a name for a URL, no later such call for a device with
\* that URL issues a request, in whatever routine or run it is made: it
\* takes the name from the cache file.  So at most one request per URL is
\* answered with a name.
C17_AtMostOneLookup ==
    [][(/\ last'.valid
        /\ last'.configured
        /\ last'.dev.primary # ""
        /\ answers[last'.dev.primary] = "name")
       => /\ ~last'.out.requested
          /\ ~last'.out.raised
          /\ last'.out.dns_name # NoName
          /\ last'.out.dns_name = Entries(fqdn)[last'.dev.primary]
          /\ answers' = answers
      ]_vars

\* Both URLs were once answered with a name, and the latest call, for a
\* device with one of them, took the name from the cache file.
C17_Witness ==
    /\ last.valid
    /\ last.configured
    /\ last.dev.primary = "ip2"
    /\ answers = [u \in IpUrls |-> "name"]
    /\ ~last.out.requested
    /\ last.out.dns_name = <<"a">>
    /\ fqdn.kind = "map"
    /\ fqdn.map["ip1"] = <<"b">>

\* The latest get_fqdn call had a cache file configured that did not exist.
LastFoundMissing ==
    /\ last.valid
    /\ last.configured
    /\ last.pre = CacheMissing

\* C18: with a cache file configured that does not exist, get_fqdn on a
\* device with a primary IP raises before any request and the NetBox
\* routine is aborted; a device without a primary IP gets its name; and no
\* step creates the file.
C18_MissingCacheFatal ==
    /\ [](LastFoundMissing =>
            IF last.dev.primary # ""
            THEN /\ last.out.raised
                 /\ ~last.out.requested
                 /\ last.out.dns_name = NoName
                 /\ pc = "aborted"
            ELSE /\ ~last.out.raised
                 /\ ~last.out.requested
                 /\ last.out.dns_name = WmnetName(last.dev.name, last.dev.slug)
                 /\ pc = "resolve")
    /\ [][fqdn.kind = "missing" => fqdn'.kind = "missing"]_vars

\* With the cache file missing, a device without a primary IP was named
\* and the next one, with a primary IP, aborted the routine unasked.
C18_Witness ==
    /\ LastFoundMissing
    /\ pc = "aborted"
    /\ i = 1
    /\ hosts = <<WmnetName(<<"a">>, <<"s">>)>>
    /\ last.dev.primary = "ip1"
    /\ ~last.out.requested
    /\ fqdn = CacheMissing
    /\ files[cur] = before[cur]

\* A NetBox routine was aborted by a non-success status of a primary-IP
\* request.
AbortedResolving ==
    /\ pc = "aborted"
    /\ cur \in NetboxRoutines
    /\ last.valid
    /\ last.resp.status = "error"

\* C19: when a primary-IP request fails in a NetBox routine, the failing
\* step changes neither the cache nor any file; the names the API or the
\* cache gave for the devices before it are still in the cache under
\* those devices' URLs, and the routine's file is as the run found it.
C19_PartialProgressKept ==
    /\ [][(pc = "resolve" /\ pc' = "aborted" /\ last'.resp.status = "error")
          => /\ last'.out.requested
             /\ fqdn' = fqdn
             /\ files' = files
             /\ hosts' = hosts
             /\ i' = i
         ]_vars
    /\ [](AbortedResolving =>
            /\ files[cur] = before[cur]
            /\ i < Len(results)
            /\ last.dev = results[i + 1]
            /\ \A k \in DOMAIN hosts :
                  hosts[k] \in DnsNames =>
                     \E j \in 1..i :
                        /\ results[j].primary # ""
                        /\ CacheGet(Entries(fqdn), results[j].primary)
                              = hosts[k])

\* The request for the second device failed after the first device got a
\* name that the cache holds, in the second NetBox routine.
C19_Witness ==
    /\ AbortedResolving
    /\ cur = "netbox_physical"
    /\ i = 1
    /\ results[1].primary = "ip1"
    /\ results[2].primary = "ip2"
    /\ hosts = <<<<"b">>>>
    /\ fqdn = CacheOf([u \in {"ip1"} |-> <<"b">>])
    /\ files["netbox_physical"] = FileOf(StaleText("netbox_physical"))
    /\ files["netbox_virtual"] = FileOf(<<>>)

\* C20: a get_fqdn call whose request is answered with an empty dns_name
\* leaves the cache file as it is, the URL is not cached with a name, and
\* every later call for a device with that URL, as long as the last answer
\* for it was empty, issues a request again.
C20_NoNegativeCaching ==
    /\ [][(/\ last'.valid
           /\ last'.out.requested
           /\ last'.resp.status = "ok"
           /\ last'.resp.dns_name = NoName)
          => /\ fqdn' = fqdn
             /\ ~last'.out.raised
             /\ last'.out.dns_name = NoName
         ]_vars
    /\ [][(/\ last'.valid
           /\ last'.dev.primary # ""
           /\ answers[last'.dev.primary] = "empty")
          => last'.out.requested
         ]_vars
    /\ [](\A u \in IpUrls :
            answers[u] = "empty" => CacheGet(Entries(fqdn), u) = NoName)

\* A configured call for a URL whose last answer was empty has asked the
\* API again and got an empty answer again; the URL is not in the cache.
C20_Witness ==
    /\ last.valid
    /\ last.configured
    /\ last.dev.primary = "ip1"
    /\ last.out.requested
    /\ last.resp.status = "ok"
    /\ last.resp.dns_name = NoName
    /\ answers["ip1"] = "empty"
    /\ answers["ip2"] = "name"
    /\ fqdn.kind = "map"
    /\ DOMAIN fqdn.map = {"ip2"}

=============================================================================
